---- MODULE Spec2Model ----
(***************************************************************************)
(* Model of the treatment-coverage dashboard of src/app.py (show_task3):   *)
(* the cached CSV load, case-insensitive column resolution, numeric        *)
(* coercion with the required-column row filter, the yearly Top-5 ranking, *)
(* the Developed/Developing classification and the matched sample of the   *)
(* lowest-mean Developing countries (Spec); of the regional-comparison     *)
(* loader load_task4_data with the guard of show_task4 (Spec4); and of the *)
(* incidence-reduction table of load_task2_map_data (Spec2).  Each page    *)
(* has its own variables, which the actions of the other pages leave       *)
(* unchanged.                                                              *)
(*                                                                         *)
(* A DataFrame is a record [columns, rows]: columns is the header (a       *)
(* sequence of column names), rows is a sequence of [idx, cells] where idx *)
(* is the pandas index label and cells is aligned with the header.  A      *)
(* string is a sequence of one-character strings, so that str.upper() and  *)
(* numeric parsing are computed and not assumed.  Country names and labels *)
(* are one-token strings.  A float is the exact fraction n/d; binary       *)
(* rounding of means is not modelled.                                      *)
(***************************************************************************)
EXTENDS Integers, Sequences, FiniteSets, TLC

\* ------------------------------------------------------------------ bounds
\* Rows of a table of the coercion family (mixed, malformed and missing cells).
MaxCoerceRows == 2
\* Rows of a table of the ranking family (more rows of one year than the cutoff).
MaxRankRows == 6
\* Rows of a table of the matched-sample family (free country per row).
MaxMatchRows == 3
\* Requests (script re-runs) served by one process.
MaxRequests == 2

\* ------------------------------------------------------------- cell values
Num(n) == [t |-> "num", n |-> n, d |-> 1, s |-> <<>>]
Rat(n, d) == [t |-> "num", n |-> n, d |-> d, s |-> <<>>]
NaN == [t |-> "nan", n |-> 0, d |-> 1, s |-> <<>>]
Str(s) == [t |-> "str", n |-> 0, d |-> 1, s |-> s]

isna(c) == c.t = "nan"

\* Exact comparison of two numeric cells n/d (d > 0).
NumLess(a, b) == a.n * b.d < b.n * a.d
NumEq(a, b) == a.n * b.d = b.n * a.d

\* ----------------------------------------------------------------- strings
LowerAlpha == <<"a","b","c","d","e","f","g","h","i","j","k","l","m",
                "n","o","p","q","r","s","t","u","v","w","x","y","z">>
UpperAlpha == <<"A","B","C","D","E","F","G","H","I","J","K","L","M",
                "N","O","P","Q","R","S","T","U","V","W","X","Y","Z">>

ToUpper == [c \in {LowerAlpha[i] : i \in 1..26} |->
               UpperAlpha[CHOOSE i \in 1..26 : LowerAlpha[i] = c]]
ToLower == [c \in {UpperAlpha[i] : i \in 1..26} |->
               LowerAlpha[CHOOSE i \in 1..26 : UpperAlpha[i] = c]]

UpperChar(c) == IF c \in DOMAIN ToUpper THEN ToUpper[c] ELSE c
LowerChar(c) == IF c \in DOMAIN ToLower THEN ToLower[c] ELSE c

\* str.upper()
upper(s) == [i \in 1..Len(s) |-> UpperChar(s[i])]
\* str.lower() and str.title() on a one-word name: used to build headers only.
lower(s) == [i \in 1..Len(s) |-> LowerChar(s[i])]
title(s) == [i \in 1..Len(s) |-> IF i = 1 THEN UpperChar(s[i]) ELSE LowerChar(s[i])]

Digits == <<"0","1","2","3","4","5","6","7","8","9">>
DigitValue == [c \in {Digits[i] : i \in 1..10} |->
                  (CHOOSE i \in 1..10 : Digits[i] = c) - 1]
IsDigit(c) == c \in DOMAIN DigitValue
DigitVal(c) == DigitValue[c]

RECURSIVE ParseDigits(_)
ParseDigits(s) ==
    IF Len(s) = 0 THEN 0
    ELSE 10 * ParseDigits(SubSeq(s, 1, Len(s) - 1)) + DigitVal(s[Len(s)])

\* ---------------------------------------------------------- logical names
YEAR == <<"Y","E","A","R">>
COUNTRY == <<"C","O","U","N","T","R","Y">>
VALUE == <<"V","A","L","U","E">>
VALUE_LO == <<"V","A","L","U","E","_","L","O">>
VALUE_HI == <<"V","A","L","U","E","_","H","I">>
DEV_STATUS == <<"DEV_STATUS">>
MEAN_COV == <<"MEAN_COV">>
RANK == <<"rank">>

\* -------------------------------------------------------------- DataFrames
NoDF == [columns |-> <<>>, rows |-> <<>>]

\* Position of the column named name (the first one, as the header has no
\* two columns of the same name).
ColIdx(df, name) ==
    CHOOSE i \in 1..Len(df.columns) :
        /\ df.columns[i] = name
        /\ \A j \in 1..(i - 1) : df.columns[j] # name

HasCol(df, name) == \E i \in 1..Len(df.columns) : df.columns[i] = name

\* df[name] of one row.
Cell(df, row, name) == row.cells[ColIdx(df, name)]

\* df[name] = vals (one cell per row): replaces the column, or appends a new
\* one.
AssignColumn(df, name, vals) ==
    IF HasCol(df, name)
    THEN [df EXCEPT !.rows =
            [i \in 1..Len(df.rows) |->
                [df.rows[i] EXCEPT !.cells[ColIdx(df, name)] = vals[i]]]]
    ELSE [columns |-> Append(df.columns, name),
          rows |-> [i \in 1..Len(df.rows) |->
                      [df.rows[i] EXCEPT !.cells = Append(@, vals[i])]]]

\* df[mask] (one boolean per row): the rows whose mask is true, in order,
\* keeping their index labels.
RECURSIVE MaskedFrom(_, _, _)
MaskedFrom(rows, mask, i) ==
    IF i > Len(rows) THEN <<>>
    ELSE (IF mask[i] THEN <<rows[i]>> ELSE <<>>) \o MaskedFrom(rows, mask, i + 1)

SelectRows(df, mask) == [df EXCEPT !.rows = MaskedFrom(df.rows, mask, 1)]

\* The elements of the finite set S as a sequence in the strict total order
\* lt, a set of pairs <<x, y>> with x before y.
SeqBy(S, lt) ==
    [i \in 1..Cardinality(S) |->
        CHOOSE x \in S : Cardinality({y \in S : <<y, x>> \in lt}) = i - 1]

Range(f) == {f[i] : i \in DOMAIN f}

\* ------------------------------------------------------ column resolution
\* find_col comparing the names as they are (c == target).
find_col_case_sensitive(columns, target) ==
    LET tgt == upper(target)
        hits == {i \in 1..Len(columns) : columns[i] = tgt}
    IN  IF hits = {}
        THEN [ok |-> FALSE, col |-> tgt]
        ELSE [ok |-> TRUE,
              col |-> columns[CHOOSE i \in hits : \A j \in hits : i <= j]]

\* find_col: the first column whose upper-cased name equals the upper-cased
\* target; KeyError (ok = FALSE) when there is none.
find_col(columns, target) ==
    LET tgt == upper(target)
        hits == {i \in 1..Len(columns) : upper(columns[i]) = tgt}
    IN  IF hits = {}
        THEN [ok |-> FALSE, col |-> tgt]
        ELSE [ok |-> TRUE,
              col |-> columns[CHOOSE i \in hits : \A j \in hits : i <= j]]

NoCols == [year_col |-> <<>>, country_col |-> <<>>, value_col |-> <<>>,
           value_lo_col |-> <<>>, value_hi_col |-> <<>>]

\* Lines 247-251: the five lookups, in order.
ResolvedCols(columns) ==
    [year_col |-> find_col(columns, YEAR).col,
     country_col |-> find_col(columns, COUNTRY).col,
     value_col |-> find_col(columns, VALUE).col,
     value_lo_col |-> find_col(columns, VALUE_LO).col,
     value_hi_col |-> find_col(columns, VALUE_HI).col]

AllResolve(columns) ==
    \A L \in {YEAR, COUNTRY, VALUE, VALUE_LO, VALUE_HI} : find_col(columns, L).ok

\* The locals assigned before the first lookup that raises.
LookupOrder == <<YEAR, COUNTRY, VALUE, VALUE_LO, VALUE_HI>>
FirstFailure(columns) ==
    CHOOSE k \in 1..5 : /\ ~find_col(columns, LookupOrder[k]).ok
                        /\ \A j \in 1..(k - 1) : find_col(columns, LookupOrder[j]).ok
PartialCols(columns) ==
    LET k == FirstFailure(columns)
        got(j) == IF j < k THEN find_col(columns, LookupOrder[j]).col ELSE <<>>
    IN  [year_col |-> got(1), country_col |-> got(2), value_col |-> got(3),
         value_lo_col |-> got(4), value_hi_col |-> got(5)]

\* ------------------------------------------- numeric coercion, row filter
\* pd.to_numeric(errors="coerce") on one cell: a number stays, a string of
\* digits is parsed, anything else (unparsable text, a missing cell) is NaN.
to_numeric(c) ==
    IF c.t = "num" THEN c
    ELSE IF c.t = "str" /\ Len(c.s) > 0 /\ \A i \in 1..Len(c.s) : IsDigit(c.s[i])
         THEN Num(ParseDigits(c.s))
         ELSE NaN

\* Lines 253-254: the four columns are coerced one after the other.
RECURSIVE CoerceColumns(_, _)
CoerceColumns(df, names) ==
    IF Len(names) = 0 THEN df
    ELSE CoerceColumns(
            AssignColumn(df, Head(names),
                         [i \in 1..Len(df.rows) |->
                             to_numeric(Cell(df, df.rows[i], Head(names)))]),
            Tail(names))

\* dropna whose result is not kept (no rebinding, no inplace).
dropna_not_kept(df, value_col) == df

\* dropna() without subset: a row goes when any of its cells is missing.
dropna_any(df, value_col) ==
    SelectRows(df, [i \in 1..Len(df.rows) |->
                      \A k \in 1..Len(df.rows[i].cells) : ~isna(df.rows[i].cells[k])])

\* Line 256: dropna(subset=[value_col]).
dropna(df, value_col) ==
    SelectRows(df, [i \in 1..Len(df.rows) |-> ~isna(Cell(df, df.rows[i], value_col))])

\* ------------------------------------------------------ Panel B: Top 5
\* The cutoff of line 342 (rank <= 5).
TopK == 5

\* The non-missing values of the year column (min() and max() skip NaN).
YearValues(df, year_col) ==
    {Cell(df, df.rows[i], year_col).n :
        i \in {j \in 1..Len(df.rows) : ~isna(Cell(df, df.rows[j], year_col))}}

SetMin(S) == CHOOSE x \in S : \A y \in S : x <= y
SetMax(S) == CHOOSE x \in S : \A y \in S : y <= x

\* Line 340: the rows whose year equals the selected year (NaN equals nothing).
this_year_of(df, year_col, y) ==
    SelectRows(df, [i \in 1..Len(df.rows) |->
                      /\ ~isna(Cell(df, df.rows[i], year_col))
                      /\ NumEq(Cell(df, df.rows[i], year_col), Num(y))])

\* rank(method="min"): equal values share the best rank of their group.
rank_min_desc(df, col, i) ==
    LET v(k) == Cell(df, df.rows[k], col)
    IN  IF isna(v(i)) THEN NaN
        ELSE Num(1 + Cardinality({k \in 1..Len(df.rows) :
                                    ~isna(v(k)) /\ NumLess(v(i), v(k))}))

\* Series.rank(method="first", ascending=False) of the row at position i:
\* one more than the number of larger values plus the number of equal values
\* at earlier positions; a missing value has a missing rank.
rank_first_desc(df, col, i) ==
    LET v(k) == Cell(df, df.rows[k], col)
    IN  IF isna(v(i)) THEN NaN
        ELSE Num(1 + Cardinality({k \in 1..Len(df.rows) :
                                    /\ ~isna(v(k))
                                    /\ \/ NumLess(v(i), v(k))
                                       \/ NumEq(v(i), v(k)) /\ k < i}))

\* Line 341: this_year["rank"] = ...
with_rank(ty, value_col) ==
    AssignColumn(ty, RANK,
                 [i \in 1..Len(ty.rows) |-> rank_first_desc(ty, value_col, i)])

\* Line 342: the rows whose rank is at most 5, in table order.
top5_of(ranked) ==
    SelectRows(ranked,
               [i \in 1..Len(ranked.rows) |->
                   /\ ~isna(Cell(ranked, ranked.rows[i], RANK))
                   /\ ~NumLess(Num(TopK), Cell(ranked, ranked.rows[i], RANK))])

\* Ranking the whole table and keeping the selected year's rows afterwards.
PanelB_rank_then_filter(df, cols, y) ==
    top5_of(this_year_of(with_rank(df, cols.value_col), cols.year_col, y))

\* Lines 340-342.
PanelB_top5(df, cols, y) ==
    top5_of(with_rank(this_year_of(df, cols.year_col, y), cols.value_col))

\* ------------------------------------- classification and matched sample
\* Lines 365-402.
developed_set ==
    {"Australia", "Austria", "Belgium", "Canada", "Denmark", "Finland", "France",
     "Germany", "Iceland", "Ireland", "Israel", "Italy", "Japan", "Luxembourg",
     "Netherlands (Kingdom of the)", "New Zealand", "Norway", "Portugal",
     "Singapore", "Spain", "Sweden", "Switzerland",
     "United Kingdom of Great Britain and Northern Ireland",
     "United States of America", "Republic of Korea", "Cyprus", "Czechia",
     "Estonia", "Greece", "Hungary", "Latvia", "Lithuania", "Poland", "Slovakia",
     "Slovenia", "Malta"}

Developed == Str(<<"Developed">>)
Developing == Str(<<"Developing">>)

\* The test of line 405 negated.
dev_status_inverted(c) ==
    IF c.t = "str" /\ Len(c.s) = 1 /\ c.s[1] \in developed_set
    THEN Str(<<"Developing">>) ELSE Str(<<"Developed">>)

\* The lambda of line 405 (a country name is a one-token string).
dev_status_of(c) ==
    IF c.t = "str" /\ Len(c.s) = 1 /\ c.s[1] \in developed_set
    THEN Developed ELSE Developing

\* Line 404: tb_cov_df["DEV_STATUS"] = tb_cov_df[country_col].apply(...)
classify(df, country_col) ==
    AssignColumn(df, DEV_STATUS,
                 [i \in 1..Len(df.rows) |-> dev_status_of(Cell(df, df.rows[i], country_col))])

\* The country names of the model in Python's string order, which is the
\* order groupby sorts its keys in.
AlphaOrder == <<"Algeria", "Brazil", "Chad", "France", "India", "Japan">>
PosIn(seq, x) == CHOOSE i \in 1..Len(seq) : seq[i] = x
CountryLess(a, b) == PosIn(AlphaOrder, a.s[1]) < PosIn(AlphaOrder, b.s[1])

\* Lines 408-412: one row per (country, DEV_STATUS) group, sorted by key, with
\* the mean of the group's values as MEAN_COV.
groupby_mean(df, cols) ==
    LET R == 1..Len(df.rows)
        c(i) == Cell(df, df.rows[i], cols.country_col)
        keys == {<<c(i), Cell(df, df.rows[i], DEV_STATUS)>> : i \in {j \in R : ~isna(c(j))}}
        KeyLess == {p \in keys \X keys :
                       \/ CountryLess(p[1][1], p[2][1])
                       \/ /\ p[1][1] = p[2][1]
                          /\ p[1][2] = Developed /\ p[2][2] = Developing}
        sorted == SeqBy(keys, KeyLess)
        members(k) == {i \in R : c(i) = k[1] /\ Cell(df, df.rows[i], DEV_STATUS) = k[2]}
        RECURSIVE Sum(_)
        Sum(S) == IF S = {} THEN 0
                  ELSE LET i == CHOOSE j \in S : TRUE
                       IN  Cell(df, df.rows[i], cols.value_col).n + Sum(S \ {i})
    IN  [columns |-> <<cols.country_col, DEV_STATUS, MEAN_COV>>,
         rows |-> [g \in 1..Len(sorted) |->
                     [idx |-> g - 1,
                      cells |-> <<sorted[g][1], sorted[g][2],
                                  Rat(Sum(members(sorted[g])),
                                      Cardinality(members(sorted[g])))>>]]]

\* Line 413: left merge on [country_col, "DEV_STATUS"]; the result has a fresh
\* 0..n-1 index and MEAN_COV appended (NaN where no group matches).
merge_left(df, means, cols) ==
    LET match(row) ==
            {g \in 1..Len(means.rows) :
                /\ means.rows[g].cells[1] = Cell(df, row, cols.country_col)
                /\ means.rows[g].cells[2] = Cell(df, row, DEV_STATUS)}
        mean_of(row) == IF match(row) = {} THEN NaN
                        ELSE means.rows[CHOOSE g \in match(row) : TRUE].cells[3]
    IN  [columns |-> Append(df.columns, MEAN_COV),
         rows |-> [i \in 1..Len(df.rows) |->
                     [idx |-> i - 1,
                      cells |-> Append(df.rows[i].cells, mean_of(df.rows[i]))]]]

\* len(mean_df) without the DEV_STATUS == "Developed" mask.
devN_all(means) == Len(means.rows)

\* Line 415.
devN_of(means) ==
    Cardinality({g \in 1..Len(means.rows) : means.rows[g].cells[2] = Developed})

\* sort_values with ascending=False.
sort_values_mean_desc(means, order) ==
    LET D == {g \in 1..Len(means.rows) : means.rows[g].cells[2] = Str(<<"Developing">>)}
        Before == {p \in D \X D :
            \/ NumLess(means.rows[p[2]].cells[3], means.rows[p[1]].cells[3])
            \/ /\ NumEq(means.rows[p[1]].cells[3], means.rows[p[2]].cells[3])
               /\ PosIn(order, means.rows[p[1]].cells[1].s[1])
                    < PosIn(order, means.rows[p[2]].cells[1].s[1])}
        sorted == SeqBy(D, Before)
    IN  [k \in 1..Len(sorted) |-> means.rows[sorted[k]]]

\* sort_values("MEAN_COV", ascending=True) of the Developing rows: ascending
\* by mean; the default sort kind is quicksort, which is not stable, so the
\* order of rows of equal mean is whatever the build's sort produces, given as
\* order (a priority list of the country names).
sort_values_mean(means, order) ==
    LET D == {g \in 1..Len(means.rows) : means.rows[g].cells[2] = Developing}
        Before == {p \in D \X D :
            \/ NumLess(means.rows[p[1]].cells[3], means.rows[p[2]].cells[3])
            \/ /\ NumEq(means.rows[p[1]].cells[3], means.rows[p[2]].cells[3])
               /\ PosIn(order, means.rows[p[1]].cells[1].s[1])
                    < PosIn(order, means.rows[p[2]].cells[1].s[1])}
        sorted == SeqBy(D, Before)
    IN  [k \in 1..Len(sorted) |-> means.rows[sorted[k]]]

\* .head(n)
head(seq, n) == SubSeq(seq, 1, IF n < Len(seq) THEN n ELSE Len(seq))

\* Lines 416-421: the country names of the first devN rows.
worstDeveloping_of(means, order) ==
    LET h == head(sort_values_mean(means, order), devN_of(means))
    IN  [k \in 1..Len(h) |-> h[k].cells[1].s[1]]

\* Line 451.
heat_dev_of(df) ==
    SelectRows(df, [i \in 1..Len(df.rows) |->
                      Cell(df, df.rows[i], DEV_STATUS) = Developed])

\* Lines 455-458.
heat_developing_of(df, country_col, worst) ==
    SelectRows(df, [i \in 1..Len(df.rows) |->
                      /\ Cell(df, df.rows[i], DEV_STATUS) = Developing
                      /\ Cell(df, df.rows[i], country_col).t = "str"
                      /\ Cell(df, df.rows[i], country_col).s[1] \in Range(worst)])

\* ---------------------------------------------------------- input tables
\* The contents of data/visual3.csv as read_csv returns them.  Four families
\* of tables are enumerated: text, malformed and missing cells (coercion),
\* more rows of one year than the Top-5 cutoff (ranking), a free country per
\* row (matched sample), and headers in every letter case over three fixed
\* rows (column resolution).
CanonicalHeader == <<YEAR, COUNTRY, VALUE, VALUE_LO, VALUE_HI>>

MkRow(i, year, country, value, lo, hi) ==
    [idx |-> i - 1, cells |-> <<year, Str(<<country>>), value, lo, hi>>]

NotAvailable == Str(<<"N", "/", "A">>)

CoerceYears == {Str(<<"2", "0", "2", "0">>), NotAvailable}
CoerceValues == {Num(70), Str(<<"9", "0">>), NotAvailable, NaN}
CoerceBands == {<<NotAvailable, Num(95)>>, <<Num(60), NotAvailable>>}
CoerceCountries == <<"Japan", "Algeria">>

CoerceTables ==
    UNION {
        {[columns |-> CanonicalHeader,
          rows |-> [i \in 1..n |->
                      MkRow(i, f[i][1], CoerceCountries[((i - 1) % 2) + 1],
                            f[i][2], f[i][3][1], f[i][3][2])]] :
            f \in [1..n -> CoerceYears \X CoerceValues \X CoerceBands]} :
        n \in 0..MaxCoerceRows}

RankCountries == <<"Japan", "Chad", "Algeria", "France", "Brazil", "India">>

\* Every row but at most one is of 2020, so one year has more rows than the
\* cutoff; the other row, if any, is of 2021.
RankTables ==
    {[columns |-> CanonicalHeader,
      rows |-> [i \in 1..MaxRankRows |->
                  MkRow(i, Num(IF i = c[2] THEN 2021 ELSE 2020),
                        RankCountries[((i - 1) % 6) + 1],
                        Num(c[1][i]), Num(60), Num(95))]] :
        c \in [1..MaxRankRows -> {70, 90}] \X (0..MaxRankRows)}

MatchCountries == {"Japan", "Chad", "Algeria"}

MatchTables ==
    UNION {
        {[columns |-> CanonicalHeader,
          rows |-> [i \in 1..n |->
                      MkRow(i, Num(2020), f[i][1], Num(f[i][2]), Num(60), Num(95))]] :
            f \in [1..n -> MatchCountries \X {70, 90}]} :
        n \in 0..MaxMatchRows}

\* A header names each of the five columns in upper, lower or title case, or
\* not at all (the column has another name); at most two columns depart from
\* upper case.  It may end with an extra column named "year".
Variants == {"upper", "lower", "title", "absent"}

NameAs(L, v) ==
    CASE v = "upper" -> L
      [] v = "lower" -> lower(L)
      [] v = "title" -> title(L)
      [] OTHER -> <<"x">> \o lower(L)

HeaderChoices ==
    {c \in [1..5 -> Variants] \X BOOLEAN :
        /\ Cardinality({i \in 1..5 : c[1][i] # "upper"}) <= 2
        /\ c[2] => c[1][1] # "lower"}

HeaderCountries == <<"Japan", "France", "Algeria">>

HeaderTables ==
    {[columns |-> [i \in 1..5 |-> NameAs(CanonicalHeader[i], c[1][i])]
                    \o (IF c[2] THEN <<lower(YEAR)>> ELSE <<>>),
      rows |-> [i \in 1..3 |->
                  [idx |-> i - 1,
                   cells |-> <<Num(2020), Str(<<HeaderCountries[i]>>), Num(70),
                               Num(60), Num(95)>>
                               \o (IF c[2] THEN <<Num(2021)>> ELSE <<>>)]]] :
        c \in HeaderChoices}

\* The orders in which the build's sort leaves rows of equal mean: the order
\* they come in (a stable outcome) and the reverse.
TieOrders == {AlphaOrder, <<"Japan", "India", "France", "Chad", "Brazil", "Algeria">>}

\* pd.read_csv (line 233); the parsing of the text is not modelled.
read_csv(f) == f

\* ------------------------------------------- state of the other pages
VARIABLES
    region_key,       \* the argument of load_task4_data
    inc_file,         \* the region's incidence file: [exists, table]
    rr_file,          \* the region's RR-prevalence file: [exists, table]
    pc4,              \* position in load_task4_data and show_task4
    exc4,             \* the exception raised inside the try block, or "none"
    inc_df,           \* locals of load_task4_data
    rr_df,
    inc_clean,
    rr_clean,
    task4_df,         \* the value load_task4_data returns (df of show_task4)
    shown4            \* what show_task4 draws: "none", "warning" or "chart"

vars4 == <<region_key, inc_file, rr_file, pc4, exc4, inc_df, rr_df, inc_clean,
           rr_clean, task4_df, shown4>>

NoFile == [exists |-> FALSE, table |-> NoDF]

\* The page of task 4 has not been opened.
Idle4 ==
    /\ region_key = "Global"
    /\ inc_file = NoFile
    /\ rr_file = NoFile
    /\ pc4 = "idle"
    /\ exc4 = "none"
    /\ inc_df = NoDF
    /\ rr_df = NoDF
    /\ inc_clean = NoDF
    /\ rr_clean = NoDF
    /\ task4_df = NoDF
    /\ shown4 = "none"

VARIABLES
    visual2,          \* data/visual2.csv
    pc2,              \* position in load_task2_map_data
    exc2,             \* the exception that ended load_task2_map_data, or "none"
    df_sub,           \* locals of load_task2_map_data
    wide

vars2 == <<visual2, pc2, exc2, df_sub, wide>>

\* The page of task 2 has not been opened.
Idle2 ==
    /\ visual2 = NoDF
    /\ pc2 = "idle"
    /\ exc2 = "none"
    /\ df_sub = NoDF
    /\ wide = NoDF

\* The variables of the pages other than show_task3.
other_pages == <<vars4, vars2>>

\* ------------------------------------------------------------------ state
VARIABLES
    file,             \* data/visual3.csv
    tie_order,        \* how the build's sort orders rows of equal mean
    cache,            \* st.cache_data's entry for load_tb_cov_data
    requests,         \* script runs started so far
    pc,               \* position in show_task3
    err,              \* the exception that ended the run, or "none"
    tb_cov_df,        \* the local table of show_task3
    cols,             \* year_col, country_col, value_col, value_lo_col, value_hi_col
    selected_year,    \* the slider of Panel B
    top5,             \* Panel B's table
    mean_df,          \* one row per country with MEAN_COV
    worstDeveloping,  \* the selected Developing countries
    heat_dev,         \* the table of the Developed heatmap
    heat_developing,  \* the table of the Developing heatmap
    hist              \* per selected year, the tables of the first finished run

vars3 == <<file, tie_order, cache, requests, pc, err, tb_cov_df, cols, selected_year,
           top5, mean_df, worstDeveloping, heat_dev, heat_developing, hist>>

vars == <<vars3, other_pages>>

YearsUniverse == {2020, 2021}

NoOut == [set |-> FALSE, top5 |-> NoDF, worstDeveloping |-> <<>>,
          heat_dev |-> NoDF, heat_developing |-> NoDF]

Init ==
    /\ \/ /\ file \in CoerceTables \cup RankTables \cup HeaderTables
          /\ tie_order = AlphaOrder
       \/ /\ file \in MatchTables
          /\ tie_order \in TieOrders
    /\ cache = [hit |-> FALSE, value |-> NoDF]
    /\ requests = 0
    /\ pc = "idle"
    /\ err = "none"
    /\ tb_cov_df = NoDF
    /\ cols = NoCols
    /\ selected_year = 0
    /\ top5 = NoDF
    /\ mean_df = NoDF
    /\ worstDeveloping = <<>>
    /\ heat_dev = NoDF
    /\ heat_developing = NoDF
    /\ hist = [y \in YearsUniverse |-> NoOut]
    /\ Idle4
    /\ Idle2

\* ----------------------------------------------------------------- actions
\* A cache that hands out the stored object itself (as st.cache_resource
\* does): a write to the returned table is a write to the stored value.
cached_value_shared(stored, written) == written

\* st.cache_data hands every caller its own copy of the cached value (it
\* stores the pickled return value), so a write to the returned table leaves
\* the stored value as it was.
cached_value_after_write(stored, written) == stored

\* Lines 748-755 and 237: a script run enters show_task3, whose locals are
\* fresh, and load_tb_cov_data reads the file on a cache miss only.
LoadData ==
    /\ pc \in {"idle", "done", "error"}
    /\ requests < MaxRequests
    /\ requests' = requests + 1
    /\ cache' = IF cache.hit THEN cache ELSE [hit |-> TRUE, value |-> read_csv(file)]
    /\ tb_cov_df' = cache'.value
    /\ pc' = "loaded"
    /\ err' = "none"
    /\ cols' = NoCols
    /\ selected_year' = 0
    /\ top5' = NoDF
    /\ mean_df' = NoDF
    /\ worstDeveloping' = <<>>
    /\ heat_dev' = NoDF
    /\ heat_developing' = NoDF
    /\ UNCHANGED other_pages
    /\ UNCHANGED <<file, tie_order, hist>>

\* Lines 247-251, every lookup succeeding.
ResolveColumns ==
    /\ pc = "loaded"
    /\ AllResolve(tb_cov_df.columns)
    /\ cols' = ResolvedCols(tb_cov_df.columns)
    /\ pc' = "resolved"
    /\ UNCHANGED other_pages
    /\ UNCHANGED <<file, tie_order, cache, requests, err, tb_cov_df, selected_year,
                   top5, mean_df, worstDeveloping, heat_dev, heat_developing, hist>>

\* Lines 245-251: a lookup raises KeyError, which nothing catches.
ResolveColumnsKeyError ==
    /\ pc = "loaded"
    /\ ~AllResolve(tb_cov_df.columns)
    /\ cols' = PartialCols(tb_cov_df.columns)
    /\ pc' = "error"
    /\ err' = "KeyError"
    /\ UNCHANGED other_pages
    /\ UNCHANGED <<file, tie_order, cache, requests, tb_cov_df, selected_year,
                   top5, mean_df, worstDeveloping, heat_dev, heat_developing, hist>>

\* Lines 253-256: the four columns are coerced in place in the loaded table,
\* then tb_cov_df is rebound to the rows with a value.
CoerceAndDrop ==
    /\ pc = "resolved"
    /\ LET coerced == CoerceColumns(tb_cov_df,
                        <<cols.year_col, cols.value_col,
                          cols.value_lo_col, cols.value_hi_col>>)
       IN  /\ cache' = [cache EXCEPT
                          !.value = cached_value_after_write(cache.value, coerced)]
           /\ tb_cov_df' = dropna(coerced, cols.value_col)
    /\ pc' = "filtered"
    /\ UNCHANGED other_pages
    /\ UNCHANGED <<file, tie_order, requests, err, cols, selected_year,
                   top5, mean_df, worstDeveloping, heat_dev, heat_developing, hist>>

\* Lines 328-342: the slider yields a year between the least and the greatest
\* year of the table; the years of the model are whole numbers.
PanelB ==
    /\ pc = "filtered"
    /\ YearValues(tb_cov_df, cols.year_col) # {}
    /\ \E y \in SetMin(YearValues(tb_cov_df, cols.year_col))
                ..SetMax(YearValues(tb_cov_df, cols.year_col)) :
          /\ selected_year' = y
          /\ top5' = PanelB_top5(tb_cov_df, cols, y)
    /\ pc' = "panelB"
    /\ UNCHANGED other_pages
    /\ UNCHANGED <<file, tie_order, cache, requests, err, tb_cov_df, cols,
                   mean_df, worstDeveloping, heat_dev, heat_developing, hist>>

\* Lines 328-329: with no year in the table min() is NaN and int(NaN) raises
\* ValueError.
PanelBValueError ==
    /\ pc = "filtered"
    /\ YearValues(tb_cov_df, cols.year_col) = {}
    /\ pc' = "error"
    /\ err' = "ValueError"
    /\ UNCHANGED other_pages
    /\ UNCHANGED <<file, tie_order, cache, requests, tb_cov_df, cols, selected_year,
                   top5, mean_df, worstDeveloping, heat_dev, heat_developing, hist>>

\* Lines 404-413.
ClassifyAndMerge ==
    /\ pc = "panelB"
    /\ LET classified == classify(tb_cov_df, cols.country_col)
           means == groupby_mean(classified, cols)
       IN  /\ mean_df' = means
           /\ tb_cov_df' = merge_left(classified, means, cols)
    /\ pc' = "merged"
    /\ UNCHANGED other_pages
    /\ UNCHANGED <<file, tie_order, cache, requests, err, cols, selected_year,
                   top5, worstDeveloping, heat_dev, heat_developing, hist>>

\* Lines 415-421.
MatchedSample ==
    /\ pc = "merged"
    /\ worstDeveloping' = worstDeveloping_of(mean_df, tie_order)
    /\ pc' = "sampled"
    /\ UNCHANGED other_pages
    /\ UNCHANGED <<file, tie_order, cache, requests, err, tb_cov_df, cols, selected_year,
                   top5, mean_df, heat_dev, heat_developing, hist>>

\* Lines 450-467: the two heatmap tables; the run ends.
Heatmaps ==
    /\ pc = "sampled"
    /\ heat_dev' = heat_dev_of(tb_cov_df)
    /\ heat_developing' = heat_developing_of(tb_cov_df, cols.country_col, worstDeveloping)
    /\ pc' = "done"
    /\ hist' = IF hist[selected_year].set THEN hist
               ELSE [hist EXCEPT ![selected_year] =
                       [set |-> TRUE, top5 |-> top5, worstDeveloping |-> worstDeveloping,
                        heat_dev |-> heat_dev', heat_developing |-> heat_developing']]
    /\ UNCHANGED other_pages
    /\ UNCHANGED <<file, tie_order, cache, requests, err, tb_cov_df, cols, selected_year,
                   top5, mean_df, worstDeveloping>>

Next ==
    \/ LoadData
    \/ ResolveColumns
    \/ ResolveColumnsKeyError
    \/ CoerceAndDrop
    \/ PanelB
    \/ PanelBValueError
    \/ ClassifyAndMerge
    \/ MatchedSample
    \/ Heatmaps

Spec == Init /\ [][Next]_vars

\* ------------------------------------------------------------ properties
\* The row of the file a row of the filtered table comes from (read_csv
\* labels the rows 0, 1, 2, ... and the filter keeps the labels).
Orig(row) == file.rows[row.idx + 1]

\* A cell that holds a number: a number, or text made of digits only.
ParsesAsNumber(c) ==
    \/ c.t = "num"
    \/ c.t = "str" /\ c.s # <<>> /\ \A i \in 1..Len(c.s) : c.s[i] \in Range(Digits)

HeaderMatches(L) ==
    LET U == upper(L)
    IN  {c \in Range(file.columns) : upper(c) = U}

ColOf(L) ==
    CASE L = YEAR -> cols.year_col
      [] L = COUNTRY -> cols.country_col
      [] L = VALUE -> cols.value_col
      [] L = VALUE_LO -> cols.value_lo_col
      [] L = VALUE_HI -> cols.value_hi_col

\* C6: once the lookups have run, a logical name that some column of the
\* header matches in upper case, and that is looked up (no earlier lookup
\* failed), is resolved to a column of the header with that upper-cased name;
\* the run ends in KeyError exactly when some logical name has no match.
C6_ColumnResolution ==
    pc \in {"resolved", "error"} =>
        LET matches == [k \in 1..5 |-> HeaderMatches(LookupOrder[k])]
        IN  /\ \A k \in 1..5 :
                  (\A j \in 1..k : matches[j] # {})
                      => ColOf(LookupOrder[k]) \in matches[k]
            /\ (err = "KeyError") <=> (\E k \in 1..5 : matches[k] = {})
            /\ err = "KeyError" => pc = "error"

\* C6 witness: a lower-case "year" column was resolved, and in another run a
\* missing column ended the run (the second is C6_WitnessKeyError).
C6_Witness ==
    /\ pc = "resolved"
    /\ cols.year_col = <<"y", "e", "a", "r">>
    /\ cols.value_col = <<"V", "a", "l", "u", "e">>

C6_WitnessKeyError == pc = "error" /\ err = "KeyError" /\ cols.year_col = <<"Y", "e", "a", "r">>

\* C7: after coercion and the filter, every row has a number in the VALUE
\* column, and every row of the file whose VALUE holds a number is kept.
C7_RowDropGuarantee ==
    pc = "filtered" =>
        /\ \A i \in 1..Len(tb_cov_df.rows) :
              Cell(tb_cov_df, tb_cov_df.rows[i], cols.value_col).t = "num"
        /\ \A k \in 1..Len(file.rows) :
              ParsesAsNumber(Cell(file, file.rows[k], cols.value_col))
                  => \E i \in 1..Len(tb_cov_df.rows) : tb_cov_df.rows[i].idx = k - 1

\* C7 witness: one row was dropped and a row whose VALUE was text is kept.
C7_Witness ==
    /\ pc = "filtered"
    /\ Len(tb_cov_df.rows) < Len(file.rows)
    /\ \E i \in 1..Len(tb_cov_df.rows) :
          Cell(file, Orig(tb_cov_df.rows[i]), cols.value_col).t = "str"

CoercedCols == {cols.year_col, cols.value_col, cols.value_lo_col, cols.value_hi_col}

\* C8: coercion is cell by cell: in a kept row a cell of a column that is not
\* coerced is as in the file, a numeric cell is as in the file, text of digits
\* is a number and any other cell of a coerced column is missing; a row is
\* absent exactly when its VALUE holds no number, whatever its other cells.
C8_CoercionCellLocal ==
    pc = "filtered" =>
        /\ \A i \in 1..Len(tb_cov_df.rows) :
              LET r == tb_cov_df.rows[i]
                  o == Orig(r)
              IN  /\ Len(r.cells) = Len(o.cells)
                  /\ \A k \in 1..Len(r.cells) :
                        IF file.columns[k] \notin CoercedCols \/ o.cells[k].t = "num"
                        THEN r.cells[k] = o.cells[k]
                        ELSE IF ParsesAsNumber(o.cells[k])
                             THEN r.cells[k].t = "num"
                             ELSE r.cells[k] = NaN
        /\ \A k \in 1..Len(file.rows) :
              (\E i \in 1..Len(tb_cov_df.rows) : tb_cov_df.rows[i].idx = k - 1)
                  <=> ParsesAsNumber(Cell(file, file.rows[k], cols.value_col))
        /\ tb_cov_df.columns = file.columns

\* C8 witness: a kept row whose YEAR and VALUE_LO were malformed.
C8_Witness ==
    /\ pc = "filtered"
    /\ \E i \in 1..Len(tb_cov_df.rows) :
          LET r == tb_cov_df.rows[i]
          IN  /\ Cell(file, Orig(r), cols.year_col) = NotAvailable
              /\ Cell(file, Orig(r), cols.value_lo_col) = NotAvailable
              /\ Cell(tb_cov_df, r, cols.year_col) = NaN
              /\ Cell(tb_cov_df, r, cols.value_lo_col) = NaN
              /\ Cell(tb_cov_df, r, cols.value_hi_col) = Num(95)
              /\ Cell(tb_cov_df, r, cols.value_col) = Num(90)

\* The positions of the filtered table's rows of the selected year.
YearRows ==
    {i \in 1..Len(tb_cov_df.rows) :
        Cell(tb_cov_df, tb_cov_df.rows[i], cols.year_col) = Num(selected_year)}

ValueAt(i) == Cell(tb_cov_df, tb_cov_df.rows[i], cols.value_col).n

\* Row i is preferred to row j: a larger value, or the same value earlier in
\* the table.
Preferred(i, j) == ValueAt(i) > ValueAt(j) \/ (ValueAt(i) = ValueAt(j) /\ i < j)

\* The positions (in the filtered table) of the rows of top5.
Top5Rows == {i \in 1..Len(tb_cov_df.rows) :
                \E k \in 1..Len(top5.rows) : top5.rows[k].idx = tb_cov_df.rows[i].idx}

RankOf(i) ==
    Cell(top5, top5.rows[CHOOSE k \in 1..Len(top5.rows) :
                            top5.rows[k].idx = tb_cov_df.rows[i].idx], RANK).n

\* C1: Panel B's table has exactly min(5, m) rows, all of them rows of the
\* selected year; every row in it is preferred to every row of the year left
\* out (larger value, or equal value and earlier), and the ranks are 1, 2, ...
\* in order of preference.
C1_TopKRanker ==
    pc = "panelB" =>
        /\ Len(top5.rows) = IF Cardinality(YearRows) < TopK
                            THEN Cardinality(YearRows) ELSE TopK
        /\ Cardinality(Top5Rows) = Len(top5.rows)
        /\ Top5Rows \subseteq YearRows
        /\ \A i \in Top5Rows : \A j \in YearRows \ Top5Rows : Preferred(i, j)
        /\ \A i \in Top5Rows :
              RankOf(i) = 1 + Cardinality({j \in Top5Rows : Preferred(j, i)})

\* C1 witness: six or more rows of the year, and the value at the cutoff is
\* shared by a row that is in and a later row that is out.
C1_Witness ==
    /\ pc = "panelB"
    /\ Cardinality(YearRows) > TopK
    /\ \E i \in Top5Rows : \E j \in YearRows \ Top5Rows :
          ValueAt(i) = ValueAt(j) /\ RankOf(i) = TopK

\* C9: every row of Panel B's table is of the selected year, and a row of the
\* selected year is left out only if five rows of that same year are preferred
\* to it: rows of other years, or without a year, take no rank.
C9_YearFilterBeforeRank ==
    pc = "panelB" =>
        /\ \A k \in 1..Len(top5.rows) :
              Cell(top5, top5.rows[k], cols.year_col) = Num(selected_year)
        /\ \A i \in YearRows :
              i \notin Top5Rows
                  => Cardinality({j \in YearRows : Preferred(j, i)}) >= TopK
        /\ \A i \in Top5Rows :
              RankOf(i) <= Cardinality(YearRows)

\* C9 witness: a row of another year has a larger value than a row of Panel
\* B's table whose year has five rows or more.
C9_Witness ==
    /\ pc = "panelB"
    /\ Cardinality(YearRows) >= TopK
    /\ \E j \in (1..Len(tb_cov_df.rows)) \ YearRows : \E i \in Top5Rows :
          ValueAt(j) > ValueAt(i)

\* C9 witness for a missing year: a row without a year stays out of the table.
C9_WitnessMissingYear ==
    /\ pc = "panelB"
    /\ top5.rows # <<>>
    /\ \E j \in 1..Len(tb_cov_df.rows) :
          Cell(tb_cov_df, tb_cov_df.rows[j], cols.year_col) = NaN

\* The country of the table's row at position i, and the countries by label.
CountryAt(df, i) == Cell(df, df.rows[i], cols.country_col).s[1]
CountriesOf(df) == {CountryAt(df, i) : i \in 1..Len(df.rows)}
DevelopedIn(df) == CountriesOf(df) \cap developed_set
DevelopingIn(df) == CountriesOf(df) \ developed_set

\* C10: once classified, the table has a row for every row that passed the
\* filter, each with one label, Developed or Developing; the label is
\* Developed exactly when the row's country is in the reference set, so rows
\* of one country share a label.
C10_ClassificationTotal ==
    pc \in {"merged", "sampled", "done"} =>
        /\ Len(tb_cov_df.rows) =
              Cardinality({k \in 1..Len(file.rows) :
                              ParsesAsNumber(Cell(file, file.rows[k], cols.value_col))})
        /\ Cardinality({k \in 1..Len(tb_cov_df.columns) :
                           tb_cov_df.columns[k] = DEV_STATUS}) = 1
        /\ \A i \in 1..Len(tb_cov_df.rows) :
              LET label == Cell(tb_cov_df, tb_cov_df.rows[i], DEV_STATUS)
              IN  /\ label \in {Str(<<"Developed">>), Str(<<"Developing">>)}
                  /\ label = Str(<<"Developed">>)
                        <=> CountryAt(tb_cov_df, i) \in developed_set
        /\ \A i, j \in 1..Len(tb_cov_df.rows) :
              CountryAt(tb_cov_df, i) = CountryAt(tb_cov_df, j)
                  => Cell(tb_cov_df, tb_cov_df.rows[i], DEV_STATUS)
                       = Cell(tb_cov_df, tb_cov_df.rows[j], DEV_STATUS)

\* C10 witness: a classified table with rows of both labels and two rows of
\* one country.
C10_Witness ==
    /\ pc = "merged"
    /\ \E i, j, k \in 1..Len(tb_cov_df.rows) :
          /\ i # j
          /\ CountryAt(tb_cov_df, i) = "Algeria"
          /\ CountryAt(tb_cov_df, j) = "Algeria"
          /\ Cell(tb_cov_df, tb_cov_df.rows[i], DEV_STATUS) = Str(<<"Developing">>)
          /\ CountryAt(tb_cov_df, k) = "Japan"
          /\ Cell(tb_cov_df, tb_cov_df.rows[k], DEV_STATUS) = Str(<<"Developed">>)

\* C3: when the run is done, the Developed heatmap's table holds every row of
\* every Developed country of the table (n countries), and the Developing
\* heatmap's table holds rows of min(n, d) distinct Developing countries, d
\* being the number of distinct Developing countries of the table: at most n,
\* and fewer than n only when d < n.
C3_MatchedSampleSize ==
    pc = "done" =>
        LET n == Cardinality(DevelopedIn(tb_cov_df))
            d == Cardinality(DevelopingIn(tb_cov_df))
        IN  /\ heat_dev.rows =
                  SelectSeq(tb_cov_df.rows,
                            LAMBDA r : Cell(tb_cov_df, r, cols.country_col).s[1]
                                          \in developed_set)
            /\ CountriesOf(heat_dev) = DevelopedIn(tb_cov_df)
            /\ CountriesOf(heat_developing) \subseteq DevelopingIn(tb_cov_df)
            /\ Cardinality(CountriesOf(heat_developing)) = IF d < n THEN d ELSE n
            /\ \A i \in 1..Len(tb_cov_df.rows) :
                  CountryAt(tb_cov_df, i) \in CountriesOf(heat_developing)
                      => \E k \in 1..Len(heat_developing.rows) :
                            heat_developing.rows[k] = tb_cov_df.rows[i]

\* C3 witness: the cap binds (more Developing countries than Developed ones).
C3_Witness ==
    /\ pc = "done"
    /\ Cardinality(DevelopedIn(tb_cov_df)) >= 1
    /\ Cardinality(DevelopingIn(tb_cov_df)) > Cardinality(DevelopedIn(tb_cov_df))
    /\ Cardinality(CountriesOf(heat_developing)) = Cardinality(DevelopedIn(tb_cov_df))

\* C3 witness for the other side: fewer Developing countries than Developed.
C3_WitnessFewer ==
    /\ pc = "done"
    /\ Cardinality(DevelopingIn(tb_cov_df)) < Cardinality(DevelopedIn(tb_cov_df))
    /\ heat_developing.rows # <<>>

\* The mean value of a country over the table's rows, as the pair
\* <<sum, count>>, and the comparison of two such means.
RowsOfCountry(c) == {i \in 1..Len(tb_cov_df.rows) : CountryAt(tb_cov_df, i) = c}

RECURSIVE SumValues(_)
SumValues(S) ==
    IF S = {} THEN 0
    ELSE LET i == CHOOSE j \in S : TRUE
         IN  ValueAt(i) + SumValues(S \ {i})

MeanLt(a, b) ==
    LET Ra == RowsOfCountry(a)
        Rb == RowsOfCountry(b)
    IN  SumValues(Ra) * Cardinality(Rb) < SumValues(Rb) * Cardinality(Ra)
MeanSame(a, b) == ~MeanLt(a, b) /\ ~MeanLt(b, a)

FirstRowOf(c) == CHOOSE i \in RowsOfCountry(c) : \A j \in RowsOfCountry(c) : i <= j

\* Country a comes before country b in an ascending sort by mean that keeps
\* countries of equal mean in input order.
BeforeByInput(a, b) ==
    MeanLt(a, b) \/ (MeanSame(a, b) /\ FirstRowOf(a) < FirstRowOf(b))

\* C2 as stated: the selected Developing countries are the first n of the
\* Developing countries sorted ascending by mean, countries of equal mean in
\* input order.
C2_Original_InputOrderTies ==
    pc \in {"sampled", "done"} =>
        LET n == Cardinality(DevelopedIn(tb_cov_df))
            D == DevelopingIn(tb_cov_df)
        IN  Range(worstDeveloping) =
                {c \in D : Cardinality({b \in D : BeforeByInput(b, c)}) < n}

\* C2 amended: the selection is min(n, d) distinct Developing countries of
\* the table, listed in ascending order of mean, and no Developing country
\* left out has a lower mean than a selected one; which countries of equal
\* mean at the cutoff are taken is not decided by input order.
C2_LowestMeans ==
    pc \in {"sampled", "done"} =>
        LET n == Cardinality(DevelopedIn(tb_cov_df))
            D == DevelopingIn(tb_cov_df)
            W == Range(worstDeveloping)
            lt == [p \in D \X D |-> MeanLt(p[1], p[2])]
        IN  /\ W \subseteq D
            /\ Cardinality(W) = Len(worstDeveloping)
            /\ Len(worstDeveloping) = IF Cardinality(D) < n THEN Cardinality(D) ELSE n
            /\ \A k \in 1..(Len(worstDeveloping) - 1) :
                  ~lt[<<worstDeveloping[k + 1], worstDeveloping[k]>>]
            /\ \A a \in W : \A b \in D \ W : ~lt[<<b, a>>]
            /\ (\A a \in W : \A b \in D \ W : lt[<<a, b>>])
                  => W = {c \in D : Cardinality({b \in D : BeforeByInput(b, c)}) < n}

\* C2 witness: two Developing countries of equal mean, one selected and one
\* not, the selected one coming later in the input.
C2_Witness ==
    /\ pc = "sampled"
    /\ \E a \in Range(worstDeveloping) :
          \E b \in DevelopingIn(tb_cov_df) \ Range(worstDeveloping) :
              MeanSame(a, b) /\ FirstRowOf(b) < FirstRowOf(a)

\* C4 as stated: a run over a table of which no row passed the filter ends
\* without an exception, with an empty Panel B table and empty heatmap tables.
C4_EmptyInputNoError ==
    (pc \in {"done", "error"} /\ err # "KeyError" /\ tb_cov_df.rows = <<>>) =>
        /\ pc = "done"
        /\ err = "none"
        /\ top5.rows = <<>>
        /\ heat_dev.rows = <<>>
        /\ heat_developing.rows = <<>>

\* The tables the run produced.
Outputs == [set |-> TRUE, top5 |-> top5, worstDeveloping |-> worstDeveloping,
            heat_dev |-> heat_dev, heat_developing |-> heat_developing]

\* C5: the cached table is the table as read from the file, whatever the runs
\* did to the tables they were handed, and a finished run has produced the
\* same tables as the first finished run with the same selected year.
C5_CachePurity ==
    /\ cache.hit => cache.value = file
    /\ pc = "done" => hist[selected_year] = Outputs

\* C5 witness: a second run over a file with text in a coerced column has
\* finished, with the year the first run had.
C5_Witness ==
    /\ pc = "done"
    /\ requests = 2
    /\ hist[selected_year].set
    /\ \E k \in 1..Len(file.rows) : Cell(file, file.rows[k], cols.value_col).t = "str"
    /\ \E k \in 1..Len(file.rows) : Cell(file, file.rows[k], cols.year_col) = NotAvailable
    /\ heat_developing.rows # <<>>

\* ======================================================================
\* Task 4: load_task4_data and show_task4 (incidence against RR-TB
\* prevalence of one WHO region).
\* ======================================================================

\* ------------------------------------------------------------------ bounds
\* Rows of an incidence or RR-prevalence table of the year family.
MaxTrendRows == 2

\* ------------------------------------------------------- names of task 4
Category == <<"Category">>
year == <<"year">>
EstimatedIncidence == <<"Estimated TB incidence per 100 000 population">>
UncertaintyLow == <<"Uncertainty interval (low)">>
UncertaintyHigh == <<"Uncertainty interval (high)">>
tb_incidence == <<"tb_incidence">>
tb_incidence_low == <<"tb_incidence_low">>
tb_incidence_high == <<"tb_incidence_high">>
PreviouslyTreated == <<"Previously treated pulmonary bacteriologically confirmed cases">>
NewCases == <<"New pulmonary bacteriologically confirmed cases">>
rr_prev_prevtx == <<"rr_prev_prevtx">>
rr_prev_new == <<"rr_prev_new">>
Unnamed == <<"Unnamed: 0">>

\* The keys of DATA_FILES_TASK4; each has an "incidence" and an "rr" path.
DATA_FILES_TASK4 ==
    {"Global", "WHO African Region", "WHO/PAHO Region of the Americas",
     "WHO Eastern Mediterranean Region", "WHO European Region",
     "WHO South-East Asia Region", "WHO Western Pacific Region"}

\* ------------------------------------------------- DataFrame operations
\* df.empty: no rows or no columns.
is_empty(df) == Len(df.columns) = 0 \/ Len(df.rows) = 0

\* df.rename(columns=mapping): mapping is a function from old to new names;
\* names outside its domain stay.
rename(df, mapping) ==
    [df EXCEPT !.columns =
        [i \in 1..Len(df.columns) |->
            IF df.columns[i] \in DOMAIN mapping THEN mapping[df.columns[i]]
            ELSE df.columns[i]]]

\* The positions of the columns named name, left to right.
PositionsOf(columns, name) ==
    LET S == {i \in 1..Len(columns) : columns[i] = name}
    IN  SeqBy(S, {p \in S \X S : p[1] < p[2]})

\* The positions df[[c for c in keep if c in df.columns]] selects: for each
\* kept name in the order of keep, every column of that name.
RECURSIVE KeptPositions(_, _, _)
KeptPositions(columns, keep, k) ==
    IF k > Len(keep) THEN <<>>
    ELSE PositionsOf(columns, keep[k]) \o KeptPositions(columns, keep, k + 1)

select_columns(df, keep) ==
    LET pos == KeptPositions(df.columns, keep, 1)
    IN  [columns |-> [k \in 1..Len(pos) |-> df.columns[pos[k]]],
         rows |-> [i \in 1..Len(df.rows) |->
                     [idx |-> df.rows[i].idx,
                      cells |-> [k \in 1..Len(pos) |-> df.rows[i].cells[pos[k]]]]]]

\* Lines 514-524.
inc_clean_of(df) ==
    LET renamed == IF HasCol(df, Category)
                   THEN rename(df, [n \in {Category} |-> year]) ELSE df
        named == rename(renamed,
                    [n \in {EstimatedIncidence, UncertaintyLow, UncertaintyHigh} |->
                        IF n = EstimatedIncidence THEN tb_incidence
                        ELSE IF n = UncertaintyLow THEN tb_incidence_low
                        ELSE tb_incidence_high])
    IN  select_columns(named,
            <<year, tb_incidence, tb_incidence_low, tb_incidence_high>>)

\* Lines 526-537.
rr_clean_of(df) ==
    LET renamed == IF HasCol(df, Category)
                   THEN rename(df, [n \in {Category} |-> year]) ELSE df
        named == rename(renamed,
                    [n \in {PreviouslyTreated, NewCases} |->
                        IF n = PreviouslyTreated THEN rr_prev_prevtx
                        ELSE rr_prev_new])
    IN  select_columns(named, <<year, rr_prev_prevtx, rr_prev_new>>)

\* The dtype of a column read by read_csv: a column with text in it is an
\* object column of strings, any other column is numeric.
dtype(df, name) ==
    IF \E i \in 1..Len(df.rows) : Cell(df, df.rows[i], name).t = "str"
    THEN "object" ELSE "number"

\* The exception pd.merge(left, right, on=key) raises, or "none": KeyError
\* when a side has no such column, ValueError when the label is not unique
\* in a side or when one key column is numeric and the other holds strings.
merge_error(left, right, key) ==
    IF ~HasCol(left, key) \/ ~HasCol(right, key) THEN "KeyError"
    ELSE IF Len(PositionsOf(left.columns, key)) > 1
            \/ Len(PositionsOf(right.columns, key)) > 1 THEN "ValueError"
    ELSE IF Len(left.rows) > 0 /\ Len(right.rows) > 0
            /\ dtype(left, key) # dtype(right, key) THEN "ValueError"
    ELSE "none"

\* Two key cells join: equal numbers, equal strings, or two missing values
\* (pd.merge matches NaN keys with each other).
KeyMatch(a, b) ==
    /\ a.t = b.t
    /\ a.t = "num" => NumEq(a, b)
    /\ a.t = "str" => a.s = b.s

\* The cells of a row without the key column.
WithoutKey(df, row, key) ==
    LET k == ColIdx(df, key)
    IN  SubSeq(row.cells, 1, k - 1) \o SubSeq(row.cells, k + 1, Len(row.cells))

OtherColumns(df, key) ==
    LET k == ColIdx(df, key)
    IN  SubSeq(df.columns, 1, k - 1) \o SubSeq(df.columns, k + 1, Len(df.columns))

\* The pairs <<i, j>> of row positions a join of left and right keeps, in the
\* order of the left rows and, for one left row, of the right rows.
PairsInOrder(P) ==
    SeqBy(P, {q \in P \X P : \/ q[1][1] < q[2][1]
                             \/ q[1][1] = q[2][1] /\ q[1][2] < q[2][2]})

\* how="left": every left row, with missing values where no right row has
\* its key.
merge_left_join(left, right, key) ==
    LET matched == {p \in (1..Len(left.rows)) \X (1..Len(right.rows)) :
                      KeyMatch(Cell(left, left.rows[p[1]], key),
                               Cell(right, right.rows[p[2]], key))}
        alone == {<<i, 0>> : i \in {k \in 1..Len(left.rows) :
                                      \A p \in matched : p[1] # k}}
        pairs == PairsInOrder(matched \cup alone)
        width == Len(right.columns) - 1
    IN  [columns |-> left.columns \o OtherColumns(right, key),
         rows |-> [k \in 1..Len(pairs) |->
                     [idx |-> k - 1,
                      cells |-> left.rows[pairs[k][1]].cells \o
                                (IF pairs[k][2] = 0 THEN [c \in 1..width |-> NaN]
                                 ELSE WithoutKey(right, right.rows[pairs[k][2]], key))]]]

\* pd.merge(left, right, on=key, how="inner") when it raises nothing: one row
\* per pair of a left and a right row with the same key, on a fresh index.
merge_inner(left, right, key) ==
    LET pairs == PairsInOrder(
                    {p \in (1..Len(left.rows)) \X (1..Len(right.rows)) :
                        KeyMatch(Cell(left, left.rows[p[1]], key),
                                 Cell(right, right.rows[p[2]], key))})
    IN  [columns |-> left.columns \o OtherColumns(right, key),
         rows |-> [k \in 1..Len(pairs) |->
                     [idx |-> k - 1,
                      cells |-> left.rows[pairs[k][1]].cells \o
                                WithoutKey(right, right.rows[pairs[k][2]], key)]]]

\* Line 541: the first and the last year kept.
YearFrom == 2017
YearTo == 2023

\* (year >= 2017) & (year <= 2023) of one numeric cell; a comparison with NaN
\* is False.
in_year_range(c) ==
    /\ c.t = "num"
    /\ ~NumLess(c, Num(YearFrom))
    /\ ~NumLess(Num(YearTo), c)

\* Line 541 raises TypeError when the year column holds strings (a string
\* is compared with an int).
filter_error(merged) ==
    IF \E i \in 1..Len(merged.rows) : Cell(merged, merged.rows[i], year).t = "str"
    THEN "TypeError" ELSE "none"

filter_years(merged) ==
    SelectRows(merged, [i \in 1..Len(merged.rows) |->
                          in_year_range(Cell(merged, merged.rows[i], year))])

\* A handler that catches the missing file only.
except_only_missing_file(e) == e = "FileNotFoundError"

\* Line 547: "except Exception" catches every exception the body raises.
except_catches(e) == TRUE

\* --------------------------------------------------- input files of task 4
IncHeader == <<Category, EstimatedIncidence, UncertaintyLow, UncertaintyHigh>>
RrHeader == <<Category, PreviouslyTreated, NewCases>>

\* A table with the given header and one row per year cell: the year cell in
\* every column named Category or year, a number in every other column.
TrendTable(header, years) ==
    [columns |-> header,
     rows |-> [i \in 1..Len(years) |->
                 [idx |-> i - 1,
                  cells |-> [k \in 1..Len(header) |->
                               IF header[k] \in {Category, year} THEN years[i]
                               ELSE Num(10 * i + k)]]]]

TrendFile(header, years) == [exists |-> TRUE, table |-> TrendTable(header, years)]

\* Year cells of a numeric year column: both ends of the kept range, the
\* years next to them outside it, and a missing year.
YearCells == {Num(2016), Num(2017), Num(2023), Num(2024), NaN}

\* The year columns of the year family: up to MaxTrendRows cells, repeated
\* years included.
YearColumns == UNION {[1..n -> YearCells] : n \in 0..MaxTrendRows}

\* The year column of the header family, read as numbers and read as text.
NumberYears == <<Num(2017), Num(2018)>>
TextYears == <<Str(<<"2","0","1","7">>), Str(<<"2","0","1","8">>)>>

\* Headers of an incidence file: the year under Category, under year, absent,
\* under both names, and a file with none of the expected columns.
IncHeaders ==
    {IncHeader,
     <<year, EstimatedIncidence, UncertaintyLow, UncertaintyHigh>>,
     <<EstimatedIncidence, UncertaintyLow, UncertaintyHigh>>,
     <<Category, year, EstimatedIncidence>>,
     <<Unnamed>>}

RrHeaders ==
    {RrHeader,
     <<year, PreviouslyTreated, NewCases>>,
     <<PreviouslyTreated, NewCases>>,
     <<Category, year, NewCases>>,
     <<Unnamed>>}

\* A key DATA_FILES_TASK4 does not have (a direct call of the loader: the
\* selectbox of show_task4 offers the keys only).
UnknownRegion == "Antarctica"

\* show_task3 has not run.
Idle3 ==
    /\ file = NoDF
    /\ tie_order = AlphaOrder
    /\ cache = [hit |-> FALSE, value |-> NoDF]
    /\ requests = 0
    /\ pc = "idle"
    /\ err = "none"
    /\ tb_cov_df = NoDF
    /\ cols = NoCols
    /\ selected_year = 0
    /\ top5 = NoDF
    /\ mean_df = NoDF
    /\ worstDeveloping = <<>>
    /\ heat_dev = NoDF
    /\ heat_developing = NoDF
    /\ hist = [y \in YearsUniverse |-> NoOut]

\* One call of load_task4_data from a cold cache.  The files are those of the
\* selected region: the year family varies the years of two well-formed
\* files, the header family the headers and the type of the year column, the
\* last two families a missing file and an unknown key.
Init4 ==
    /\ Idle3
    /\ Idle2
    /\ \/ /\ region_key = "Global"
          /\ \E ys \in YearColumns : inc_file = TrendFile(IncHeader, ys)
          /\ \E ys \in YearColumns : rr_file = TrendFile(RrHeader, ys)
       \/ /\ region_key = "Global"
          /\ \E h \in IncHeaders, ys \in {NumberYears, TextYears} :
                inc_file = TrendFile(h, ys)
          /\ \E h \in RrHeaders, ys \in {NumberYears, TextYears} :
                rr_file = TrendFile(h, ys)
       \/ /\ region_key \in DATA_FILES_TASK4
          /\ inc_file \in {NoFile, TrendFile(IncHeader, NumberYears)}
          /\ rr_file \in {NoFile, TrendFile(RrHeader, NumberYears)}
          /\ ~(inc_file.exists /\ rr_file.exists)
       \/ /\ region_key = UnknownRegion
          /\ inc_file = NoFile
          /\ rr_file = NoFile
    /\ pc4 = "idle"
    /\ exc4 = "none"
    /\ inc_df = NoDF
    /\ rr_df = NoDF
    /\ inc_clean = NoDF
    /\ rr_clean = NoDF
    /\ task4_df = NoDF
    /\ shown4 = "none"

\* ------------------------------------------------------ actions of task 4
\* Lines 506-509: a key without files returns pd.DataFrame() before the try
\* block.
Task4Lookup ==
    /\ pc4 = "idle"
    /\ IF region_key \in DATA_FILES_TASK4
       THEN /\ pc4' = "try"
            /\ UNCHANGED task4_df
       ELSE /\ pc4' = "returned"
            /\ task4_df' = NoDF
    /\ UNCHANGED <<region_key, inc_file, rr_file, exc4, inc_df, rr_df, inc_clean,
                   rr_clean, shown4>>
    /\ UNCHANGED <<vars3, vars2>>

\* Lines 511-512: read_csv of a file that is not there raises
\* FileNotFoundError; the incidence file is read first.
Task4ReadCsv ==
    /\ pc4 = "try"
    /\ IF ~inc_file.exists
       THEN /\ exc4' = "FileNotFoundError"
            /\ pc4' = "raised"
            /\ UNCHANGED <<inc_df, rr_df>>
       ELSE IF ~rr_file.exists
       THEN /\ inc_df' = read_csv(inc_file.table)
            /\ exc4' = "FileNotFoundError"
            /\ pc4' = "raised"
            /\ UNCHANGED rr_df
       ELSE /\ inc_df' = read_csv(inc_file.table)
            /\ rr_df' = read_csv(rr_file.table)
            /\ pc4' = "read"
            /\ UNCHANGED exc4
    /\ UNCHANGED <<region_key, inc_file, rr_file, inc_clean, rr_clean, task4_df, shown4>>
    /\ UNCHANGED <<vars3, vars2>>

\* Lines 514-537: renames and column selection; none of them raises.
Task4Clean ==
    /\ pc4 = "read"
    /\ inc_clean' = inc_clean_of(inc_df)
    /\ rr_clean' = rr_clean_of(rr_df)
    /\ pc4' = "cleaned"
    /\ UNCHANGED <<region_key, inc_file, rr_file, exc4, inc_df, rr_df, task4_df, shown4>>
    /\ UNCHANGED <<vars3, vars2>>

\* Lines 539-545: the join and the year filter, or pd.DataFrame() when a
\* cleaned table is empty.
Task4Merge ==
    /\ pc4 = "cleaned"
    /\ IF is_empty(inc_clean) \/ is_empty(rr_clean)
       THEN /\ task4_df' = NoDF
            /\ pc4' = "returned"
            /\ UNCHANGED exc4
       ELSE IF merge_error(inc_clean, rr_clean, year) # "none"
       THEN /\ exc4' = merge_error(inc_clean, rr_clean, year)
            /\ pc4' = "raised"
            /\ UNCHANGED task4_df
       ELSE LET merged == merge_inner(inc_clean, rr_clean, year)
            IN  IF filter_error(merged) # "none"
                THEN /\ exc4' = filter_error(merged)
                     /\ pc4' = "raised"
                     /\ UNCHANGED task4_df
                ELSE /\ task4_df' = filter_years(merged)
                     /\ pc4' = "returned"
                     /\ UNCHANGED exc4
    /\ UNCHANGED <<region_key, inc_file, rr_file, inc_df, rr_df, inc_clean, rr_clean,
                   shown4>>
    /\ UNCHANGED <<vars3, vars2>>

\* Lines 547-548: the handler returns pd.DataFrame(); an exception it does
\* not catch leaves the loader.
Task4Except ==
    /\ pc4 = "raised"
    /\ IF except_catches(exc4)
       THEN /\ task4_df' = NoDF
            /\ pc4' = "returned"
       ELSE /\ pc4' = "propagated"
            /\ UNCHANGED task4_df
    /\ UNCHANGED <<region_key, inc_file, rr_file, exc4, inc_df, rr_df, inc_clean,
                   rr_clean, shown4>>
    /\ UNCHANGED <<vars3, vars2>>

\* Lines 561-567 and the rest of show_task4: the warning and an early
\* return on an empty table, the chart otherwise.
ShowTask4 ==
    /\ pc4 = "returned"
    /\ shown4' = IF is_empty(task4_df) THEN "warning" ELSE "chart"
    /\ pc4' = "shown"
    /\ UNCHANGED <<region_key, inc_file, rr_file, exc4, inc_df, rr_df, inc_clean,
                   rr_clean, task4_df>>
    /\ UNCHANGED <<vars3, vars2>>

Next4 ==
    \/ Task4Lookup
    \/ Task4ReadCsv
    \/ Task4Clean
    \/ Task4Merge
    \/ Task4Except
    \/ ShowTask4

Spec4 == Init4 /\ [][Next4]_vars

\* --------------------------------------------------- properties of task 4
\* The year cells of a file as read: the cells of its Category and year
\* columns.
YearCellsOf(t) ==
    {t.rows[i].cells[k] : i \in 1..Len(t.rows),
                          k \in {j \in 1..Len(t.columns) : t.columns[j] \in {Category, year}}}

MissingFile4 == ~inc_file.exists \/ ~rr_file.exists
NoYearColumn(t) == ~HasCol(t, Category) /\ ~HasCol(t, year)
TextYear(t) == \E c \in YearCellsOf(t) : c.t = "str"

\* C11: the loader never lets an exception out; after any exception of the
\* body, for an unknown region key, and for a missing file, a file without a
\* year column or a year column of text, it returns an empty table; on an
\* empty table show_task4 shows the warning and builds no chart.
C11_LoadGuard ==
    /\ pc4 # "propagated"
    /\ pc4 \in {"returned", "shown"} =>
          /\ exc4 # "none" => task4_df = NoDF
          /\ region_key \notin DATA_FILES_TASK4 => task4_df = NoDF
          /\ (\/ MissingFile4
              \/ NoYearColumn(inc_file.table) \/ NoYearColumn(rr_file.table)
              \/ TextYear(inc_file.table) \/ TextYear(rr_file.table))
                => is_empty(task4_df)
    /\ pc4 = "shown" /\ is_empty(task4_df) => shown4 = "warning"

\* Both files are there, one has no year column, the merge raised KeyError
\* and the page shows the warning.
C11_Witness ==
    /\ pc4 = "shown"
    /\ ~MissingFile4
    /\ NoYearColumn(rr_file.table)
    /\ exc4 = "KeyError"
    /\ task4_df = NoDF
    /\ shown4 = "warning"

C11_WitnessBadTypes ==
    /\ pc4 = "shown"
    /\ exc4 = "TypeError"
    /\ shown4 = "warning"

C11_WitnessMissingFile ==
    /\ pc4 = "shown"
    /\ region_key = "WHO European Region"
    /\ exc4 = "FileNotFoundError"
    /\ shown4 = "warning"

C11_WitnessUnknownKey ==
    /\ pc4 = "shown"
    /\ region_key = UnknownRegion
    /\ shown4 = "warning"

\* C12: every row of the returned table has a year that is a year of the
\* incidence file and a year of the RR-prevalence file and lies in
\* 2017..2023; when a cleaned table has no rows the returned table is
\* pd.DataFrame().
C12_InnerJoinYears ==
    pc4 \in {"returned", "shown"} =>
        /\ \A i \in 1..Len(task4_df.rows) :
              /\ HasCol(task4_df, year)
              /\ LET y == Cell(task4_df, task4_df.rows[i], year)
                 IN  /\ y.t = "num"
                     /\ 2017 * y.d <= y.n
                     /\ y.n <= 2023 * y.d
                     /\ \E a \in YearCellsOf(inc_file.table) : a.t = "num" /\ NumEq(a, y)
                     /\ \E b \in YearCellsOf(rr_file.table) : b.t = "num" /\ NumEq(b, y)
        /\ (Len(inc_clean.rows) = 0 \/ Len(rr_clean.rows) = 0) => task4_df = NoDF

\* Two files of two rows each, of which the join and the filter keep one
\* row: a year of the incidence file is missing from the result.
C12_Witness ==
    /\ pc4 = "shown"
    /\ Len(inc_clean.rows) = 2
    /\ Len(rr_clean.rows) = 2
    /\ Len(task4_df.rows) = 1
    /\ \E a \in YearCellsOf(inc_file.table) :
          /\ in_year_range(a)
          /\ \A i \in 1..Len(task4_df.rows) :
                ~KeyMatch(a, Cell(task4_df, task4_df.rows[i], year))
    /\ shown4 = "chart"

\* An incidence file with a header and no rows, an RR file with rows.
C12_WitnessNoRows ==
    /\ pc4 = "shown"
    /\ inc_file.exists
    /\ Len(inc_file.table.rows) = 0
    /\ Len(rr_clean.rows) > 0
    /\ task4_df = NoDF

\* ======================================================================
\* Task 2: load_task2_map_data (reduction of incidence from 2017 to 2023).
\* ======================================================================

\* ------------------------------------------------------------------ bounds
\* Rows of data/visual2.csv.
MaxMapRows == 3

\* ------------------------------------------------------- names of task 2
country == <<"country">>
iso3 == <<"iso3">>
g_whoregion == <<"g_whoregion">>
region == <<"region">>
e_inc_100k == <<"e_inc_100k">>
inc_2017 == <<"inc_2017">>
inc_2023 == <<"inc_2023">>
reduction_pct == <<"reduction_pct">>
reduction_pct_capped == <<"reduction_pct_capped">>

\* Lines 140-147.
region_map ==
    [c \in {<<"A","F","R">>, <<"A","M","R">>, <<"E","M","R">>, <<"E","U","R">>,
            <<"S","E","A","R">>, <<"W","P","R">>} |->
        CASE c = <<"A","F","R">> -> "Africa"
          [] c = <<"A","M","R">> -> "Americas"
          [] c = <<"E","M","R">> -> "Eastern Mediterranean"
          [] c = <<"E","U","R">> -> "Europe"
          [] c = <<"S","E","A","R">> -> "South-East Asia"
          [] c = <<"W","P","R">> -> "Western Pacific"]

\* The region names in sorted order (the order of the pivot's index).
RegionOrder == <<"Africa", "Americas", "Eastern Mediterranean", "Europe",
                 "South-East Asia", "Western Pacific">>

\* str.strip(): without the white space at both ends.
strip(s) ==
    LET ink == {i \in 1..Len(s) : s[i] \notin {" ", "\t", "\n", "\r"}}
    IN  IF ink = {} THEN <<>> ELSE SubSeq(s, SetMin(ink), SetMax(ink))

\* Lines 150-151 of one cell: astype(str) of a missing cell is "nan"; a code
\* the map does not have maps to NaN.
region_of(c) ==
    LET code == strip(IF c.t = "str" THEN c.s ELSE <<"n","a","n">>)
    IN  IF code \in DOMAIN region_map THEN Str(<<region_map[code]>>) ELSE NaN

\* Lines 149-155: the rows of a mapped region and of the years 2017 and 2023,
\* with the columns country, iso3, region, year, e_inc_100k.
df_sub_of(df_raw) ==
    LET mapped == AssignColumn(df_raw, region,
                     [i \in 1..Len(df_raw.rows) |->
                        region_of(Cell(df_raw, df_raw.rows[i], g_whoregion))])
        kept == SelectRows(mapped,
                   [i \in 1..Len(mapped.rows) |->
                      /\ ~isna(Cell(mapped, mapped.rows[i], region))
                      /\ \E y \in {2017, 2023} :
                            /\ Cell(mapped, mapped.rows[i], year).t = "num"
                            /\ NumEq(Cell(mapped, mapped.rows[i], year), Num(y))])
    IN  select_columns(kept, <<country, iso3, region, year, e_inc_100k>>)

\* The column label pivot_table gives the values of year y, and line 163.
YearLabel(y) == <<ToString(y)>>
inc_names == [n \in {YearLabel(2017), YearLabel(2023)} |->
                 IF n = YearLabel(2017) THEN inc_2017 ELSE inc_2023]

\* Lines 157-161: one row per (country, iso3, region) in sorted order and one
\* column per year, holding the mean of the group's values of that year that
\* are not missing.  A group of a year without such a value is dropped before
\* the years become columns, so a year without any value has no column and a
\* key without any value has no row.
pivot_table(df) ==
    LET R == 1..Len(df.rows)
        key(i) == <<Cell(df, df.rows[i], country), Cell(df, df.rows[i], iso3),
                    Cell(df, df.rows[i], region)>>
        members(k, y) ==
            {i \in R : /\ key(i) = k
                       /\ NumEq(Cell(df, df.rows[i], year), Num(y))
                       /\ ~isna(Cell(df, df.rows[i], e_inc_100k))}
        RECURSIVE Sum(_)
        Sum(S) == IF S = {} THEN 0
                  ELSE LET i == CHOOSE j \in S : TRUE
                       IN  Cell(df, df.rows[i], e_inc_100k).n + Sum(S \ {i})
        mean(k, y) == IF members(k, y) = {} THEN NaN
                      ELSE Rat(Sum(members(k, y)), Cardinality(members(k, y)))
        years == {y \in {2017, 2023} : \E i \in R : members(key(i), y) # {}}
        keys == {key(i) : i \in {j \in R : \E y \in years : members(key(j), y) # {}}}
        KeyLess == {p \in keys \X keys :
                       \/ CountryLess(p[1][1], p[2][1])
                       \/ /\ p[1][1] = p[2][1]
                          /\ PosIn(RegionOrder, p[1][3].s[1])
                                < PosIn(RegionOrder, p[2][3].s[1])}
        sorted == SeqBy(keys, KeyLess)
        ycols == SeqBy(years, {p \in years \X years : p[1] < p[2]})
    IN  [columns |-> <<country, iso3, region>> \o
                     [j \in 1..Len(ycols) |-> YearLabel(ycols[j])],
         rows |-> [g \in 1..Len(sorted) |->
                     [idx |-> g - 1,
                      cells |-> sorted[g] \o
                                [j \in 1..Len(ycols) |-> mean(sorted[g], ycols[j])]]]]

\* Line 167 of one row: (a - b) / a * 100 for a > 0.
reduction_pct_of(a, b) == Rat((a.n * b.d - b.n * a.d) * 100, a.n * b.d)

\* A clip with the lower limit only.
clip_lower_only(c, lo, hi) == IF NumLess(c, Num(lo)) THEN Num(lo) ELSE c

\* Series.clip(lower=lo, upper=hi) of one cell.
clip(c, lo, hi) ==
    IF NumLess(c, Num(lo)) THEN Num(lo)
    ELSE IF NumLess(Num(hi), c) THEN Num(hi)
    ELSE c

\* Lines 164-168 on a table that has both columns.
reduction_of(w) ==
    LET both == SelectRows(w, [i \in 1..Len(w.rows) |->
                                 /\ ~isna(Cell(w, w.rows[i], inc_2017))
                                 /\ ~isna(Cell(w, w.rows[i], inc_2023))])
        positive == SelectRows(both, [i \in 1..Len(both.rows) |->
                                        NumLess(Num(0), Cell(both, both.rows[i], inc_2017))])
        pct == [i \in 1..Len(positive.rows) |->
                  reduction_pct_of(Cell(positive, positive.rows[i], inc_2017),
                                   Cell(positive, positive.rows[i], inc_2023))]
        with_pct == AssignColumn(positive, reduction_pct, pct)
    IN  AssignColumn(with_pct, reduction_pct_capped,
                     [i \in 1..Len(pct) |-> clip(pct[i], -50, 100)])

\* ------------------------------------------------- input file of task 2
Visual2Header == <<country, iso3, g_whoregion, year, e_inc_100k>>

\* The rows a file of the model is made of: a country of a mapped region
\* (its code padded with a blank) with missing, zero, negative and positive
\* incidences of both years; a second country; the first country under a
\* second code; a code the map does not have and a missing code; a year that
\* is neither 2017 nor 2023.
MapRowChoices ==
    {<<Str(<<"Chad">>), Str(<<"TCD">>), Str(<<" ","A","F","R">>), Num(y), v>> :
        y \in {2017, 2023}, v \in {Num(-10), Num(0), Num(10), Num(40), NaN}}
    \cup {<<Str(<<"France">>), Str(<<"FRA">>), Str(<<"E","U","R"," ">>), Num(p[1]), Num(p[2])>> :
            p \in {<<2017, 10>>, <<2023, 10>>, <<2023, 40>>}}
    \cup {<<Str(<<"Chad">>), Str(<<"TCD">>), Str(<<"E","U","R">>), Num(2017), Num(10)>>,
          <<Str(<<"Chad">>), Str(<<"TCD">>), Str(<<"X","Y","Z">>), Num(2017), Num(10)>>,
          <<Str(<<"Chad">>), Str(<<"TCD">>), NaN, Num(2023), Num(10)>>,
          <<Str(<<"France">>), Str(<<"FRA">>), Str(<<"E","U","R">>), Num(2020), Num(10)>>}

MapTables ==
    {[columns |-> Visual2Header,
      rows |-> [i \in 1..Len(rs) |-> [idx |-> i - 1, cells |-> rs[i]]]] :
        rs \in UNION {[1..n -> MapRowChoices] : n \in 0..MaxMapRows}}

\* One call of load_task2_map_data from a cold cache.
Init2 ==
    /\ Idle3
    /\ Idle4
    /\ visual2 \in MapTables
    /\ pc2 = "idle"
    /\ exc2 = "none"
    /\ df_sub = NoDF
    /\ wide = NoDF

\* ------------------------------------------------------ actions of task 2
\* Lines 134-155.
Task2ReadAndFilter ==
    /\ pc2 = "idle"
    /\ df_sub' = df_sub_of(read_csv(visual2))
    /\ pc2' = "filtered"
    /\ UNCHANGED <<visual2, exc2, wide>>
    /\ UNCHANGED <<vars3, vars4>>

\* Lines 157-163.
Task2Pivot ==
    /\ pc2 = "filtered"
    /\ wide' = rename(pivot_table(df_sub), inc_names)
    /\ pc2' = "pivoted"
    /\ UNCHANGED <<visual2, exc2, df_sub>>
    /\ UNCHANGED <<vars3, vars4>>

\* Lines 164-170: wide["inc_2017"] or wide["inc_2023"] raises KeyError when
\* the pivot has no column of that year; nothing catches it.
Task2Reduce ==
    /\ pc2 = "pivoted"
    /\ IF HasCol(wide, inc_2017) /\ HasCol(wide, inc_2023)
       THEN /\ wide' = reduction_of(wide)
            /\ pc2' = "returned"
            /\ UNCHANGED exc2
       ELSE /\ exc2' = "KeyError"
            /\ pc2' = "error"
            /\ UNCHANGED wide
    /\ UNCHANGED <<visual2, df_sub>>
    /\ UNCHANGED <<vars3, vars4>>

Next2 ==
    \/ Task2ReadAndFilter
    \/ Task2Pivot
    \/ Task2Reduce

Spec2 == Init2 /\ [][Next2]_vars

\* --------------------------------------------------- properties of task 2
WideCell(i, name) == Cell(wide, wide.rows[i], name)

\* The rows of the file of country c and year y whose region code, without
\* the blanks around it, is one of the six codes.
FileRows(c, y) ==
    {i \in 1..Len(visual2.rows) :
        /\ Cell(visual2, visual2.rows[i], country) = c
        /\ Cell(visual2, visual2.rows[i], year) = Num(y)
        /\ Cell(visual2, visual2.rows[i], g_whoregion).t = "str"
        /\ strip(Cell(visual2, visual2.rows[i], g_whoregion).s) \in
              {<<"A","F","R">>, <<"A","M","R">>, <<"E","M","R">>, <<"E","U","R">>,
               <<"S","E","A","R">>, <<"W","P","R">>}}

\* C13: every row of the returned table is of one of the six regions, has an
\* incidence for 2017 and for 2023 (each from rows of the file with a value),
\* a 2017 incidence above 0, a reduction p with p * inc_2017 =
\* 100 * (inc_2017 - inc_2023), and a capped reduction that is at least -50,
\* at most 100, and equal to p when p is within these limits.
C13_ReductionTable ==
    pc2 = "returned" =>
        \A i \in 1..Len(wide.rows) :
            LET a == WideCell(i, inc_2017)
                b == WideCell(i, inc_2023)
                p == WideCell(i, reduction_pct)
                c == WideCell(i, reduction_pct_capped)
            IN  /\ WideCell(i, region).t = "str"
                /\ WideCell(i, region).s[1] \in
                      {"Africa", "Americas", "Eastern Mediterranean", "Europe",
                       "South-East Asia", "Western Pacific"}
                /\ a.t = "num" /\ b.t = "num"
                /\ \E j \in FileRows(WideCell(i, country), 2017) :
                      ~isna(Cell(visual2, visual2.rows[j], e_inc_100k))
                /\ \E j \in FileRows(WideCell(i, country), 2023) :
                      ~isna(Cell(visual2, visual2.rows[j], e_inc_100k))
                /\ a.d > 0 /\ a.n > 0
                /\ p.t = "num" /\ p.d > 0
                /\ p.n * a.n * b.d = 100 * (a.n * b.d - b.n * a.d) * p.d
                /\ c.t = "num" /\ c.d > 0
                /\ -50 * c.d <= c.n
                /\ c.n <= 100 * c.d
                /\ (-50 * p.d <= p.n /\ p.n <= 100 * p.d) => c.n * p.d = p.n * c.d

\* A returned row whose reduction is above 100 and capped to 100.
C13_Witness ==
    /\ pc2 = "returned"
    /\ \E i \in 1..Len(wide.rows) :
          /\ WideCell(i, reduction_pct).n > 100 * WideCell(i, reduction_pct).d
          /\ WideCell(i, reduction_pct_capped) = Num(100)

\* A returned row whose reduction is below -50 and capped to -50.
C13_WitnessLowerCap ==
    /\ pc2 = "returned"
    /\ \E i \in 1..Len(wide.rows) :
          /\ WideCell(i, reduction_pct).n < -50 * WideCell(i, reduction_pct).d
          /\ WideCell(i, reduction_pct_capped) = Num(-50)

\* A returned row with a mean of two values and a reduction within the
\* limits, left as it is.
C13_WitnessMean ==
    /\ pc2 = "returned"
    /\ \E i \in 1..Len(wide.rows) :
          /\ WideCell(i, inc_2023).d = 2
          /\ WideCell(i, reduction_pct) = WideCell(i, reduction_pct_capped)
          /\ WideCell(i, reduction_pct).n > 0

\* A country with a 2017 incidence of 0 and a 2023 incidence: no row.
C13_WitnessZero ==
    /\ pc2 = "returned"
    /\ Len(df_sub.rows) = 3
    /\ Len(wide.rows) = 0
    /\ \E j \in FileRows(Str(<<"Chad">>), 2017) :
          Cell(visual2, visual2.rows[j], e_inc_100k) = Num(0)

\* No row of 2023 at all: the load ends in KeyError.
C13_WitnessKeyError ==
    /\ pc2 = "error"
    /\ exc2 = "KeyError"
    /\ Len(df_sub.rows) > 0

====
